---------------------------- MODULE Spec2Model ----------------------------
(***************************************************************************)
(* Model of app.py, the food-distribution cost calculator: the calibration *)
(* run at module level (channel ratios, historical aggregation, backsolve, *)
(* guardrails) followed by the form and the scenario calculation.          *)
(*                                                                         *)
(* Numbers are exact rationals <<n, d>> (d > 0, lowest terms), except in   *)
(* the binary64 section at the end, which redoes the grid search of the    *)
(* backsolve in IEEE-754 double arithmetic, as the interpreter runs it.    *)
(***************************************************************************)
EXTENDS Integers, Sequences, FiniteSets, TLC

(***************************************************************************)
(* Bounds of the model.                                                    *)
(***************************************************************************)
MaxRows == 2      \* rows of the historical sheet
MaxUnits == 2     \* largest channel value of a drawn composition (GenSpec)

(***************************************************************************)
(* Exact rational arithmetic.                                              *)
(***************************************************************************)
RECURSIVE GCD(_, _)
GCD(a, b) == IF b = 0 THEN a ELSE GCD(b, a % b)

IAbs(n) == IF n < 0 THEN -n ELSE n

Rat(n, d) ==
    LET s == IF d < 0 THEN -1 ELSE 1
        g == GCD(IAbs(n), IAbs(d))
    IN  <<(s * n) \div g, (s * d) \div g>>

R(n) == <<n, 1>>
RAdd(a, b) == Rat(a[1] * b[2] + b[1] * a[2], a[2] * b[2])
RSub(a, b) == Rat(a[1] * b[2] - b[1] * a[2], a[2] * b[2])
RMul(a, b) ==
    LET g1 == GCD(IAbs(a[1]), b[2])
        g2 == GCD(IAbs(b[1]), a[2])
    IN  IF a[1] = 0 \/ b[1] = 0 THEN <<0, 1>>
        ELSE <<(a[1] \div g1) * (b[1] \div g2), (a[2] \div g2) * (b[2] \div g1)>>
RDiv(a, b) == RMul(a, Rat(b[2], b[1]))
RLt(a, b) == a[1] * b[2] < b[1] * a[2]
RLe(a, b) == a[1] * b[2] <= b[1] * a[2]
RAbs(a) == <<IAbs(a[1]), a[2]>>
RMax(a, b) == IF RLt(a, b) THEN b ELSE a
RMin(a, b) == IF RLt(b, a) THEN b ELSE a

\* Python's None, and float('inf') of the grid search.
None == <<>>
Inf == <<1, 0>>

(***************************************************************************)
(* Constants of app.py.                                                    *)
(***************************************************************************)
TRANSPORT_COST_PER_LB_PER_MILE == Rat(1, 100)
DONATED_COST == Rat(4, 100)
DEFAULT_PURCHASED_COST_PER_LB == Rat(100, 100)
DEFAULT_PRODUCE_COST_PER_LB == Rat(75, 100)
BP_PURCHASED_COST == Rat(127, 100)

\* The program codes, in the sorted order groupby('PROGRAM') yields.
ProgramOrder == <<"AGENCY", "BP", "MP", "PP", "SP">>
Programs == {ProgramOrder[i] : i \in 1..Len(ProgramOrder)}

Comp(a, b, c) == [produce |-> a, purchased |-> b, donated |-> c]

ConfiguredModel ==
    [p \in Programs |->
        CASE p = "BP" -> Comp(R(4), R(4), R(4))
          [] p = "PP" -> Comp(R(24), R(0), R(0))
          [] OTHER -> Comp(R(16), R(5), R(2))]

VARIABLES
    pc,                   \* position in the script
    err,                  \* the exception that ended the run, or "none"
    lbs_per_hh_model,     \* composition model
    excel,                \* rows of Final_Quarterly_Data.xlsx
    program_food_ratios,
    quarter_df,
    program_agg,
    results,
    cost_estimates,
    form,                 \* the submitted form
    out                   \* the scenario calculation

vars == <<pc, err, lbs_per_hh_model, excel, program_food_ratios, quarter_df,
          program_agg, results, cost_estimates, form, out>>


(***************************************************************************)
(* Inputs: the historical sheet and the form.                              *)
(***************************************************************************)
CostValues == {1, 2}
WeightValues == {0, 3}

Row(p, c, w) == [PROGRAM |-> p, Cost |-> R(c), Weight |-> R(w)]

RowsOf(progs) == {Row(p, c, w) : p \in progs, c \in CostValues, w \in WeightValues}

Sheets(progs) == UNION {[1..n -> RowsOf(progs)] : n \in 0..MaxRows}

HHValues == {1, 350}
DeliveryValues == {1, 12}
MilesValues == {R(30)}

(***************************************************************************)
(* Calculate Food Ratios (lines 32-40).                                    *)
(***************************************************************************)
OrZero(v) == IF v = None THEN R(0) ELSE v

\* Variant: the total leaves the donated channel out.
CompTotalNoDonated(values) ==
    RAdd(OrZero(values.produce), OrZero(values.purchased))

\* sum(v for v in values.values() if v is not None)
CompTotal(values) ==
    RAdd(RAdd(OrZero(values.produce), OrZero(values.purchased)), OrZero(values.donated))

RatioOf(v, total) == IF total # R(0) THEN RDiv(OrZero(v), total) ELSE R(0)

FoodRatios(values) ==
    LET total == CompTotal(values)
    IN  [produce_ratio |-> RatioOf(values.produce, total),
         purchased_ratio |-> RatioOf(values.purchased, total),
         donated_ratio |-> RatioOf(values.donated, total)]

NoRatios == [produce_ratio |-> R(0), purchased_ratio |-> R(0), donated_ratio |-> R(0)]

\* program_food_ratios.get(prog, {}).get(key, 0)
RatiosGet(ratios, prog) == IF prog \in DOMAIN ratios THEN ratios[prog] ELSE NoRatios

(***************************************************************************)
(* Apply ratios to historical data and aggregate by program (lines 42-61). *)
(***************************************************************************)
\* Variant: the floor is inclusive (Cost >= 1).
RetainedInclusive(row) == RLe(R(1), row.Cost)

Retained(row) == RLt(R(1), row.Cost)

EstimatedWeights(row, ratios) ==
    LET r == RatiosGet(ratios, row.PROGRAM)
    IN  [PROGRAM |-> row.PROGRAM, Cost |-> row.Cost, Weight |-> row.Weight,
         Estimated_Produce_Weight |-> RMul(row.Weight, r.produce_ratio),
         Estimated_Purchased_Weight |-> RMul(row.Weight, r.purchased_ratio),
         Estimated_Donated_Weight |-> RMul(row.Weight, r.donated_ratio)]

RECURSIVE SumCol(_, _, _)
SumCol(df, col, i) ==
    IF i > Len(df) THEN R(0) ELSE RAdd(df[i][col], SumCol(df, col, i + 1))

GroupOf(df, p) == SelectSeq(df, LAMBDA row : row.PROGRAM = p)

AggRow(df, p) ==
    LET g == GroupOf(df, p)
    IN  [PROGRAM |-> p,
         Cost |-> SumCol(g, "Cost", 1),
         Weight |-> SumCol(g, "Weight", 1),
         Estimated_Produce_Weight |-> SumCol(g, "Estimated_Produce_Weight", 1),
         Estimated_Purchased_Weight |-> SumCol(g, "Estimated_Purchased_Weight", 1),
         Estimated_Donated_Weight |-> SumCol(g, "Estimated_Donated_Weight", 1)]

RECURSIVE GroupByProgram(_, _)
GroupByProgram(df, i) ==
    IF i > Len(ProgramOrder) THEN <<>>
    ELSE (IF GroupOf(df, ProgramOrder[i]) = <<>> THEN <<>>
          ELSE <<AggRow(df, ProgramOrder[i])>>) \o GroupByProgram(df, i + 1)

\* df[df['PROGRAM'] == program]
Matching(df, program) == SelectSeq(df, LAMBDA row : row.PROGRAM = program)

(***************************************************************************)
(* Backsolve costs (lines 63-99).                                          *)
(***************************************************************************)
GridPoints == 71

\* np.linspace(0.5, 1.2, 71)[k], k = 0 .. 70
CandidateY(k) == Rat(50 + k, 100)

\* x / total_weight if total_weight else 0
PerWeight(x, total_weight) == IF total_weight # R(0) THEN RDiv(x, total_weight) ELSE R(0)

CandidateX(blended_cost, rprod, rpurch, rdon, candidate_y) ==
    RDiv(RSub(RSub(blended_cost, RMul(rpurch, candidate_y)), RMul(rdon, DONATED_COST)),
         rprod)

Reconstructed(rprod, rpurch, rdon, candidate_x, candidate_y) ==
    RAdd(RAdd(RMul(rprod, candidate_x), RMul(rpurch, candidate_y)),
         RMul(rdon, DONATED_COST))

GridError(blended_cost, rprod, rpurch, rdon, candidate_y) ==
    LET candidate_x == CandidateX(blended_cost, rprod, rpurch, rdon, candidate_y)
    IN  RAbs(RSub(Reconstructed(rprod, rpurch, rdon, candidate_x, candidate_y),
                  blended_cost))

\* Variant: a candidate of equal error replaces the best one (<=).
ImprovesOrTies(error, best_error) == best_error = Inf \/ RLe(error, best_error)

\* if error < best_error
Improves(error, best_error) == best_error = Inf \/ RLt(error, best_error)

\* The body of the loop over candidate_ys (lines 81-86).
GridStep(blended_cost, rprod, rpurch, rdon, k, best) ==
    LET candidate_y == CandidateY(k)
        error == GridError(blended_cost, rprod, rpurch, rdon, candidate_y)
    IN  IF Improves(error, best.best_error)
        THEN [best_error |-> error,
              x |-> CandidateX(blended_cost, rprod, rpurch, rdon, candidate_y),
              y |-> candidate_y]
        ELSE best

\* The loop over candidates lo .. hi - 1 in ascending order, cut in halves
\* to keep the evaluation shallow.
RECURSIVE GridLoop(_, _, _, _, _, _, _)
GridLoop(blended_cost, rprod, rpurch, rdon, lo, hi, best) ==
    IF hi <= lo THEN best
    ELSE IF hi = lo + 1 THEN GridStep(blended_cost, rprod, rpurch, rdon, lo, best)
    ELSE LET mid == (lo + hi) \div 2
             first == GridLoop(blended_cost, rprod, rpurch, rdon, lo, mid, best)
         IN  \* the test only makes the first half be evaluated before the
             \* second half starts; both branches continue the loop
             IF first.best_error = Inf
             THEN GridLoop(blended_cost, rprod, rpurch, rdon, mid, hi, first)
             ELSE GridLoop(blended_cost, rprod, rpurch, rdon, mid, hi, first)

GridSearch(blended_cost, rprod, rpurch, rdon) ==
    GridLoop(blended_cost, rprod, rpurch, rdon, 0, GridPoints,
             [best_error |-> Inf, x |-> None, y |-> None])

\* y = max(0.5, min(1.2, y))
ClampPurchased(y) == RMax(Rat(5, 10), RMin(Rat(12, 10), y))

\* Variant: the donated share is not taken off the blended cost.
SingleUnknownNoDonated(blended_cost, r, rdon) == RDiv(blended_cost, r)

SingleUnknown(blended_cost, r, rdon) ==
    RDiv(RSub(blended_cost, RMul(rdon, DONATED_COST)), r)

SolverBranch(prog, rprod, rpurch) ==
    IF prog # "BP" /\ RLt(R(0), rprod) /\ RLt(R(0), rpurch) THEN "grid"
    ELSE IF RLt(R(0), rpurch) /\ rprod = R(0) THEN "purchased_only"
    ELSE IF RLt(R(0), rprod) /\ rpurch = R(0) THEN "produce_only"
    ELSE "none"

Estimate(prog, x, y) ==
    [PROGRAM |-> prog,
     estimated_produce_cost_per_lb |-> x,
     estimated_purchased_cost_per_lb |-> y]

Backsolve(row) ==
    LET prog == row.PROGRAM
        total_weight == row.Weight
        blended_cost == PerWeight(row.Cost, total_weight)
        rprod == PerWeight(row.Estimated_Produce_Weight, total_weight)
        rpurch == PerWeight(row.Estimated_Purchased_Weight, total_weight)
        rdon == PerWeight(row.Estimated_Donated_Weight, total_weight)
        branch == SolverBranch(prog, rprod, rpurch)
    IN  CASE branch = "grid" ->
               LET best == GridSearch(blended_cost, rprod, rpurch, rdon)
               IN  Estimate(prog, best.x, best.y)
          [] branch = "purchased_only" ->
               Estimate(prog, None, ClampPurchased(SingleUnknown(blended_cost, rpurch, rdon)))
          [] branch = "produce_only" ->
               Estimate(prog, SingleUnknown(blended_cost, rprod, rdon), None)
          [] OTHER -> Estimate(prog, None, None)

(***************************************************************************)
(* Apply Guardrails (lines 101-103).                                       *)
(***************************************************************************)
FillNa(v, default) == IF v = None THEN default ELSE v

\* Variant: only the purchased price is filled.
GuardrailsPurchasedOnly(row) ==
    Estimate(row.PROGRAM,
             row.estimated_produce_cost_per_lb,
             FillNa(row.estimated_purchased_cost_per_lb, DEFAULT_PURCHASED_COST_PER_LB))

Guardrails(row) ==
    Estimate(row.PROGRAM,
             FillNa(row.estimated_produce_cost_per_lb, DEFAULT_PRODUCE_COST_PER_LB),
             FillNa(row.estimated_purchased_cost_per_lb, DEFAULT_PURCHASED_COST_PER_LB))

(***************************************************************************)
(* The scenario calculation (lines 121-153).  FIXED_COST_PER_LB is         *)
(* 13044792 / 17562606; an amount that involves it is kept as the pair     *)
(* q + f * FIXED_COST_PER_LB of its two rational coefficients.             *)
(***************************************************************************)
FIXED_COST_PER_LB == Rat(13044792, 17562606)

Lin(q, f) == [q |-> q, f |-> f]

\* blended = agg_row['Cost'] / agg_row['Weight'] if agg_row['Weight'] > 0 else 0
BPBlended(agg_row) ==
    IF RLt(R(0), agg_row.Weight) THEN RDiv(agg_row.Cost, agg_row.Weight) ELSE R(0)

\* (blended - (r * 1.27 + r * DONATED_COST)) / r with r = 1 / 3
EqualSplitProduce(blended) ==
    LET r == Rat(1, 3)
    IN  RDiv(RSub(blended, RAdd(RMul(r, BP_PURCHASED_COST), RMul(r, DONATED_COST))), r)

\* pd.notna(row['estimated_produce_cost_per_lb'])
NotNa(v) == v # None

\* Variant: BP is looked up like every other program.
PricesNoOverride(program, match, agg_row) ==
    IF match = <<>>
    THEN [produce_cost |-> DEFAULT_PRODUCE_COST_PER_LB,
          purchased_cost |-> DEFAULT_PURCHASED_COST_PER_LB]
    ELSE [produce_cost |-> match[1].estimated_produce_cost_per_lb,
          purchased_cost |-> match[1].estimated_purchased_cost_per_lb]

Prices(program, match, agg_row) ==
    IF match = <<>>
    THEN [produce_cost |-> DEFAULT_PRODUCE_COST_PER_LB,
          purchased_cost |-> DEFAULT_PURCHASED_COST_PER_LB]
    ELSE LET row == match[1]
         IN  IF program = "BP"
             THEN [produce_cost |->
                      IF NotNa(row.estimated_produce_cost_per_lb)
                      THEN row.estimated_produce_cost_per_lb
                      ELSE EqualSplitProduce(BPBlended(agg_row)),
                   purchased_cost |-> BP_PURCHASED_COST]
             ELSE [produce_cost |-> row.estimated_produce_cost_per_lb,
                   purchased_cost |-> row.estimated_purchased_cost_per_lb]

\* Variant: the fixed cost is charged on every delivery.
TotalCostFixedPerDelivery(delivery_cost, deliveries, total_lbs) ==
    Lin(RMul(delivery_cost, R(deliveries)), RMul(total_lbs, R(deliveries)))

\* total_cost = delivery_cost * deliveries + fixed_cost
TotalCost(delivery_cost, deliveries, total_lbs) ==
    Lin(RMul(delivery_cost, R(deliveries)), total_lbs)

DeliveryCost(f, price) ==
    LET prod_total == RMul(f.produce_lb, R(f.hh))
        purch_total == RMul(f.purchased_lb, R(f.hh))
        don_total == RMul(f.donated_lb, R(f.hh))
        total_lbs == RAdd(RAdd(prod_total, purch_total), don_total)
        base_cost == RAdd(RAdd(RMul(prod_total, price.produce_cost),
                               RMul(purch_total, price.purchased_cost)),
                          RMul(don_total, DONATED_COST))
        fixed_cost == Lin(R(0), total_lbs)
        transport_cost == RMul(RMul(total_lbs, f.miles), TRANSPORT_COST_PER_LB_PER_MILE)
        delivery_cost == RAdd(base_cost, transport_cost)
        total_cost == TotalCost(delivery_cost, f.deliveries, total_lbs)
        total_annual_lbs == RMul(total_lbs, R(f.deliveries))
    IN  [produce_cost |-> price.produce_cost,
         purchased_cost |-> price.purchased_cost,
         total_lbs |-> total_lbs,
         base_cost |-> base_cost,
         fixed_cost |-> fixed_cost,
         transport_cost |-> transport_cost,
         delivery_cost |-> delivery_cost,
         total_cost |-> total_cost,
         total_annual_lbs |-> total_annual_lbs,
         blended_annual_cost_per_lb |->
             IF total_annual_lbs # R(0)
             THEN Lin(RDiv(total_cost.q, total_annual_lbs),
                      RDiv(total_cost.f, total_annual_lbs))
             ELSE Lin(R(0), R(0))]

(***************************************************************************)
(* The script, top to bottom.                                              *)
(***************************************************************************)
NoForm == [submitted |-> FALSE]
NoOut == <<>>

InitWith(model) ==
    /\ pc = "read_excel"
    /\ err = "none"
    /\ lbs_per_hh_model = model
    /\ excel = <<>>
    /\ program_food_ratios = <<>>
    /\ quarter_df = <<>>
    /\ program_agg = <<>>
    /\ results = <<>>
    /\ cost_estimates = <<>>
    /\ form = NoForm
    /\ out = NoOut

Init == InitWith(ConfiguredModel)

\* quarter_df = pd.read_excel(quarterly_path)
ReadSheet(progs) ==
    /\ pc = "read_excel"
    /\ \E sheet \in Sheets(progs) : excel' = sheet /\ quarter_df' = sheet
    /\ pc' = "ratios"
    /\ UNCHANGED <<err, lbs_per_hh_model, program_food_ratios, program_agg, results,
                   cost_estimates, form, out>>

ReadExcel == ReadSheet(Programs)

CalculateFoodRatios ==
    /\ pc = "ratios"
    /\ program_food_ratios' = [prog \in DOMAIN lbs_per_hh_model |->
                                  FoodRatios(lbs_per_hh_model[prog])]
    /\ pc' = "filter"
    /\ UNCHANGED <<err, lbs_per_hh_model, excel, quarter_df, program_agg, results,
                   cost_estimates, form, out>>

\* quarter_df = quarter_df[quarter_df['Cost'] > 1]
FilterRows ==
    /\ pc = "filter"
    /\ quarter_df' = SelectSeq(quarter_df, Retained)
    /\ pc' = "apply"
    /\ UNCHANGED <<err, lbs_per_hh_model, excel, program_food_ratios, program_agg,
                   results, cost_estimates, form, out>>

ApplyRatios ==
    /\ pc = "apply"
    /\ quarter_df' = [i \in 1..Len(quarter_df) |->
                         EstimatedWeights(quarter_df[i], program_food_ratios)]
    /\ pc' = "aggregate"
    /\ UNCHANGED <<err, lbs_per_hh_model, excel, program_food_ratios, program_agg,
                   results, cost_estimates, form, out>>

\* With no retained row, apply() has built no Estimated_* column and
\* groupby(...).agg(...) raises on the missing columns.
Aggregate ==
    /\ pc = "aggregate"
    /\ IF quarter_df = <<>>
       THEN /\ pc' = "error"
            /\ err' = "AggregateError"
            /\ UNCHANGED program_agg
       ELSE /\ program_agg' = GroupByProgram(quarter_df, 1)
            /\ pc' = "backsolve"
            /\ UNCHANGED err
    /\ UNCHANGED <<lbs_per_hh_model, excel, program_food_ratios, quarter_df, results,
                   cost_estimates, form, out>>

BacksolveCosts ==
    /\ pc = "backsolve"
    /\ results' = [i \in 1..Len(program_agg) |-> Backsolve(program_agg[i])]
    /\ pc' = "guardrails"
    /\ UNCHANGED <<err, lbs_per_hh_model, excel, program_food_ratios, quarter_df,
                   program_agg, cost_estimates, form, out>>

ApplyGuardrails ==
    /\ pc = "guardrails"
    /\ cost_estimates' = [i \in 1..Len(results) |-> Guardrails(results[i])]
    /\ pc' = "form"
    /\ UNCHANGED <<err, lbs_per_hh_model, excel, program_food_ratios, quarter_df,
                   program_agg, results, form, out>>

\* The form is shown and not submitted: the script ends.
ShowForm ==
    /\ pc = "form"
    /\ pc' = "done"
    /\ UNCHANGED <<err, lbs_per_hh_model, excel, program_food_ratios, quarter_df,
                   program_agg, results, cost_estimates, form, out>>

SubmitForm ==
    /\ pc = "form"
    /\ \E program \in DOMAIN lbs_per_hh_model, hh \in HHValues,
          deliveries \in DeliveryValues, miles \in MilesValues :
         \E lbs \in {lbs_per_hh_model[program]} :
            form' = [submitted |-> TRUE, program |-> program, hh |-> hh,
                     deliveries |-> deliveries, produce_lb |-> lbs.produce,
                     purchased_lb |-> lbs.purchased, donated_lb |-> lbs.donated,
                     miles |-> miles]
    /\ pc' = "calculate"
    /\ UNCHANGED <<err, lbs_per_hh_model, excel, program_food_ratios, quarter_df,
                   program_agg, results, cost_estimates, out>>

\* if submitted: ...
Calculate ==
    /\ pc = "calculate"
    /\ LET match == Matching(cost_estimates, form.program)
           aggs == Matching(program_agg, form.program)
       IN  IF aggs = <<>>
           THEN \* .iloc[0] of an empty frame (line 123)
                /\ pc' = "error"
                /\ err' = "IndexError"
                /\ UNCHANGED out
           ELSE /\ out' = DeliveryCost(form, Prices(form.program, match, aggs[1]))
                /\ pc' = "done"
                /\ UNCHANGED err
    /\ UNCHANGED <<lbs_per_hh_model, excel, program_food_ratios, quarter_df,
                   program_agg, results, cost_estimates, form>>

Calibration ==
    \/ CalculateFoodRatios
    \/ FilterRows
    \/ ApplyRatios
    \/ Aggregate
    \/ BacksolveCosts
    \/ ApplyGuardrails

Next ==
    \/ ReadExcel
    \/ Calibration
    \/ ShowForm
    \/ SubmitForm
    \/ Calculate

Spec == Init /\ [][Next]_vars

(***************************************************************************)
(* The calibration over drawn composition models: the two programs that    *)
(* are not (16, 5, 2) get a composition of absent or small channel values. *)
(***************************************************************************)
UnitValues == {None} \cup {R(n) : n \in 0..MaxUnits}

GenPrograms == {"BP", "PP"}

GenInit ==
    \E a \in UnitValues, b \in UnitValues, c \in UnitValues :
        InitWith([p \in Programs |->
                     IF p \in GenPrograms THEN Comp(a, b, c) ELSE ConfiguredModel[p]])

GenReadExcel == ReadSheet(GenPrograms)

GenNext ==
    \/ GenReadExcel
    \/ Calibration

GenSpec == GenInit /\ [][GenNext]_vars

(***************************************************************************)
(* Properties.                                                             *)
(***************************************************************************)
\* Positions of the script at which the named table has been assigned.
HasRatios == pc \notin {"read_excel", "ratios"}
HasAggregates == pc \in {"backsolve", "guardrails", "form", "calculate", "done"}
                    \/ err = "IndexError"
HasResults == HasAggregates /\ pc # "backsolve"
HasEstimates == HasResults /\ pc # "guardrails"
Calculated == pc = "done" /\ form.submitted

RECURSIVE SumOver(_, _)
SumOver(S, f) ==
    IF S = {} THEN R(0)
    ELSE LET i == CHOOSE j \in S : TRUE IN RAdd(f[i], SumOver(S \ {i}, f))

RetainedRowsOf(p) == {i \in 1..Len(excel) : excel[i].PROGRAM = p /\ excel[i].Cost[1] > excel[i].Cost[2]}

AggregatedPrograms == {program_agg[i].PROGRAM : i \in 1..Len(program_agg)}

Between(lo, v, hi) == RLe(lo, v) /\ RLe(v, hi)

\* C6: there is exactly one aggregate per program with a record of Cost > 1,
\* holding the sums of cost, weight and weight * ratio over exactly those
\* records of the program; records of Cost <= 1 and programs without a
\* retained record contribute nothing.
C6_AggregatesAreSumsOfRetainedRows ==
    HasAggregates =>
        /\ AggregatedPrograms = {p \in Programs : RetainedRowsOf(p) # {}}
        /\ Len(program_agg) = Cardinality(AggregatedPrograms)
        /\ \A i \in 1..Len(program_agg) :
              LET a == program_agg[i]
                  S == RetainedRowsOf(a.PROGRAM)
                  r == program_food_ratios[a.PROGRAM]
                  weight == [j \in S |-> excel[j].Weight]
              IN  /\ a.Cost = SumOver(S, [j \in S |-> excel[j].Cost])
                  /\ a.Weight = SumOver(S, weight)
                  /\ a.Estimated_Produce_Weight =
                        SumOver(S, [j \in S |-> RMul(weight[j], r.produce_ratio)])
                  /\ a.Estimated_Purchased_Weight =
                        SumOver(S, [j \in S |-> RMul(weight[j], r.purchased_ratio)])
                  /\ a.Estimated_Donated_Weight =
                        SumOver(S, [j \in S |-> RMul(weight[j], r.donated_ratio)])

\* A sheet with a dropped row (Cost 1) of one program and a retained row
\* (Cost 2, Weight 3) of another, which makes the only aggregate.
C6_Witness ==
    /\ HasAggregates
    /\ Len(excel) = 2
    /\ \E i, j \in 1..2 :
          /\ excel[i].Cost = R(1) /\ excel[j].Cost = R(2)
          /\ excel[i].PROGRAM # excel[j].PROGRAM
          /\ excel[j].Weight = R(3)
    /\ Len(program_agg) = 1
    /\ program_agg[1].Cost = R(2)

\* The channel values of a composition that are present.
Present(values) == {v \in {values.produce, values.purchased, values.donated} : v # None}

\* C7: every channel ratio lies in [0, 1]; the three sum to 1 when the
\* composition has a positive channel, and are all 0 when every channel is
\* zero or absent.
C7_RatiosNormalised ==
    HasRatios =>
        \A p \in DOMAIN lbs_per_hh_model :
            LET r == program_food_ratios[p]
                positive == \E v \in Present(lbs_per_hh_model[p]) : RLt(R(0), v)
                sum == RAdd(RAdd(r.produce_ratio, r.purchased_ratio), r.donated_ratio)
            IN  /\ Between(R(0), r.produce_ratio, R(1))
                /\ Between(R(0), r.purchased_ratio, R(1))
                /\ Between(R(0), r.donated_ratio, R(1))
                /\ positive => sum = R(1)
                /\ ~positive => r = NoRatios

\* A composition with an absent channel and two positive ones.
C7_Witness ==
    /\ HasRatios
    /\ lbs_per_hh_model["PP"] = Comp(None, R(1), R(2))
    /\ program_food_ratios["PP"].purchased_ratio = Rat(1, 3)
    /\ program_food_ratios["PP"].produce_ratio = R(0)

\* The solver's inputs for an aggregate, from the aggregate's own columns.
Blended(a) == IF a.Weight = R(0) THEN R(0) ELSE RDiv(a.Cost, a.Weight)
ShareOf(col, a) == IF a.Weight = R(0) THEN R(0) ELSE RDiv(a[col], a.Weight)
RProd(a) == ShareOf("Estimated_Produce_Weight", a)
RPurch(a) == ShareOf("Estimated_Purchased_Weight", a)
RDon(a) == ShareOf("Estimated_Donated_Weight", a)

\* C4: with only the purchased ratio positive the solver returns
\* y = min(1.2, max(0.5, (blended - rDon * 0.04) / rPurch)) and no x; with
\* only the produce ratio positive it returns an unclamped x that satisfies
\* rProd * x + rDon * 0.04 = blended, and no y.
C4_SingleChannelSolve ==
    HasResults =>
        \A i \in 1..Len(program_agg) :
            LET a == program_agg[i]
                x == results[i].estimated_produce_cost_per_lb
                y == results[i].estimated_purchased_cost_per_lb
                known == RMul(RDon(a), DONATED_COST)
            IN  /\ (RLt(R(0), RPurch(a)) /\ ~RLt(R(0), RProd(a))) =>
                      /\ x = None
                      /\ y # None
                      /\ y = RMin(Rat(12, 10),
                                  RMax(Rat(5, 10), RDiv(RSub(Blended(a), known), RPurch(a))))
                /\ (RLt(R(0), RProd(a)) /\ ~RLt(R(0), RPurch(a))) =>
                      /\ y = None
                      /\ x # None
                      /\ RAdd(RMul(RProd(a), x), known) = Blended(a)

\* A purchased-only aggregate whose exact solution lies above the band and
\* is clamped to 1.2, next to a donated share.
C4_Witness ==
    /\ HasResults
    /\ \E i \in 1..Len(program_agg) :
          /\ RProd(program_agg[i]) = R(0)
          /\ RLt(R(0), RPurch(program_agg[i]))
          /\ RLt(R(0), RDon(program_agg[i]))
          /\ RLt(Rat(12, 10), RDiv(RSub(Blended(program_agg[i]),
                                        RMul(RDon(program_agg[i]), DONATED_COST)),
                                   RPurch(program_agg[i])))
          /\ results[i].estimated_purchased_cost_per_lb = Rat(12, 10)

\* C5: an aggregate of total weight 0 raises nothing, gets no estimate from
\* the solver, and leaves the guardrails with the default prices 0.75 and 1.00.
C5_ZeroWeightAggregate ==
    /\ pc = "guardrails" =>
          \A i \in 1..Len(program_agg) :
              program_agg[i].Weight = R(0) => results[i] = Estimate(program_agg[i].PROGRAM, None, None)
    /\ HasEstimates =>
          \A i \in 1..Len(program_agg) :
              program_agg[i].Weight = R(0) =>
                  /\ Len(cost_estimates) = Len(program_agg)
                  /\ results[i] = Estimate(program_agg[i].PROGRAM, None, None)
                  /\ cost_estimates[i] = Estimate(program_agg[i].PROGRAM, Rat(75, 100), R(1))

\* The guardrails have run over a zero-weight aggregate of retained rows.
C5_Witness ==
    /\ HasEstimates
    /\ \E i \in 1..Len(program_agg) :
          /\ program_agg[i].Weight = R(0)
          /\ RLt(R(1), program_agg[i].Cost)
          /\ cost_estimates[i].estimated_produce_cost_per_lb = Rat(75, 100)

\* C8: total weight = households * (sum of the lbs per household), base cost
\* = sum of channel weight * price (donated at 0.04), transport = total
\* weight * miles * 0.01, delivery cost = base + transport, annual total =
\* delivery cost * deliveries + total weight * FIXED_COST_PER_LB; 350
\* households, 16/5/2 lbs, 30 miles at 0.75/1.00 give 8050, 5978, 2415, 8393.
C8_DeliveryCostArithmetic ==
    Calculated =>
        LET hh == R(form.hh)
            lbs == RAdd(RAdd(form.produce_lb, form.purchased_lb), form.donated_lb)
            weight == RMul(hh, lbs)
            base == RAdd(RMul(RMul(hh, form.produce_lb), out.produce_cost),
                         RAdd(RMul(RMul(hh, form.purchased_lb), out.purchased_cost),
                              RMul(RMul(hh, form.donated_lb), Rat(4, 100))))
            transport == RMul(weight, RMul(form.miles, Rat(1, 100)))
        IN  /\ out.total_lbs = weight
            /\ out.base_cost = base
            /\ out.transport_cost = transport
            /\ out.delivery_cost = RAdd(base, transport)
            /\ out.total_cost.q = RMul(out.delivery_cost, R(form.deliveries))
            /\ out.total_cost.f = weight
            /\ (/\ form.hh = 350
                /\ <<form.produce_lb, form.purchased_lb, form.donated_lb>> = <<R(16), R(5), R(2)>>
                /\ form.miles = R(30)
                /\ out.produce_cost = Rat(75, 100)
                /\ out.purchased_cost = R(1)) =>
                   /\ out.total_lbs = R(8050)
                   /\ out.base_cost = R(5978)
                   /\ out.transport_cost = R(2415)
                   /\ out.delivery_cost = R(8393)

\* The scenario of the example, twelve deliveries a year.
C8_Witness ==
    /\ Calculated
    /\ form.hh = 350 /\ form.deliveries = 12 /\ form.miles = R(30)
    /\ <<form.produce_lb, form.purchased_lb, form.donated_lb>> = <<R(16), R(5), R(2)>>
    /\ out.produce_cost = Rat(75, 100) /\ out.purchased_cost = R(1)
    /\ out.delivery_cost = R(8393)
    /\ out.total_cost = Lin(R(100716), R(8050))

\* C9: the purchased price a scenario is calculated with lies in [0.5, 1.2]
\* for every program but BP, and is 1.27 for BP.
C9_PurchasedPriceBand ==
    Calculated =>
        IF form.program = "BP"
        THEN out.purchased_cost = Rat(127, 100)
        ELSE Between(Rat(5, 10), out.purchased_cost, Rat(12, 10))

\* BP calculated at 1.27 although its finalized estimate is the default 1.00.
C9_Witness ==
    /\ Calculated
    /\ form.program = "BP"
    /\ Matching(cost_estimates, "BP")[1].estimated_purchased_cost_per_lb = R(1)
    /\ out.purchased_cost = Rat(127, 100)

\* The aggregates the grid search runs on.
TwoUnknowns(a) == a.PROGRAM # "BP" /\ RLt(R(0), RProd(a)) /\ RLt(R(0), RPurch(a))

\* |rProd * x + rPurch * y + rDon * 0.04 - blended|
ReconstructionError(a, x, y) ==
    RAbs(RSub(RAdd(RAdd(RMul(RProd(a), x), RMul(RPurch(a), y)), RMul(RDon(a), Rat(4, 100))),
              Blended(a)))

\* The error of grid point k: y = 0.5 + k / 100 and the x implied by it.
ErrorAt(a, k) ==
    LET y == Rat(50 + k, 100)
        x == RDiv(RSub(RSub(Blended(a), RMul(RPurch(a), y)), RMul(RDon(a), Rat(4, 100))),
                  RProd(a))
    IN  ReconstructionError(a, x, y)

C1_PriceResolutionTotal ==
    (form.submitted /\ pc \in {"done", "error"}) =>
        /\ err = "none"
        /\ out # NoOut
        /\ out.produce_cost # None /\ out.purchased_cost # None
        /\ form.program \notin AggregatedPrograms =>
              /\ out.produce_cost = Rat(75, 100)
              /\ out.purchased_cost = R(1)

\* C2: when the solver left the produce price of BP unresolved, a BP
\* scenario is calculated with the equal-split derivation
\* (blended - (1/3 * 1.27 + 1/3 * 0.04)) / (1/3), blended = cost / weight of
\* the BP aggregate (0 if the weight is 0).
C2_BPEqualSplitProduce ==
    (Calculated /\ form.program = "BP") =>
        LET i == CHOOSE j \in 1..Len(program_agg) : program_agg[j].PROGRAM = "BP"
            third == Rat(1, 3)
        IN  results[i].estimated_produce_cost_per_lb = None =>
                out.produce_cost =
                    RDiv(RSub(Blended(program_agg[i]),
                              RAdd(RMul(third, Rat(127, 100)), RMul(third, Rat(4, 100)))),
                         third)

(***************************************************************************)
(* IEEE-754 binary64, the arithmetic of the Python floats of app.py.  A    *)
(* double is <<s, m, e>> of value (-1)^s * m * 2^e, m a 53-bit natural    *)
(* (2^52 <= m < 2^53) or m = 0; naturals are little-endian sequences of    *)
(* 14-bit limbs without leading zero limbs.  Results are rounded to        *)
(* nearest, ties to even.  The values of the calibration stay far from     *)
(* overflow and underflow, which are not modelled.                         *)
(***************************************************************************)
LimbBits == 14
Base == 2 ^ LimbBits
MantissaBits == 53

Limb(a, i) == IF i <= Len(a) THEN a[i] ELSE 0
IMax(a, b) == IF a < b THEN b ELSE a
IMin(a, b) == IF a < b THEN a ELSE b

RECURSIVE BTrim(_)
BTrim(a) == IF a = <<>> \/ a[Len(a)] # 0 THEN a ELSE BTrim(SubSeq(a, 1, Len(a) - 1))

RECURSIVE BFromInt(_)
BFromInt(n) == IF n = 0 THEN <<>> ELSE <<n % Base>> \o BFromInt(n \div Base)

RECURSIVE BAddFrom(_, _, _, _)
BAddFrom(a, b, i, carry) ==
    IF i > IMax(Len(a), Len(b)) THEN (IF carry = 0 THEN <<>> ELSE <<carry>>)
    ELSE LET t == Limb(a, i) + Limb(b, i) + carry
         IN  <<t % Base>> \o BAddFrom(a, b, i + 1, t \div Base)

BAdd(a, b) == BAddFrom(a, b, 1, 0)

\* a - b for a >= b
RECURSIVE BSubFrom(_, _, _, _)
BSubFrom(a, b, i, borrow) ==
    IF i > Len(a) THEN <<>>
    ELSE LET t == a[i] - Limb(b, i) - borrow
         IN  <<t % Base>> \o BSubFrom(a, b, i + 1, IF t < 0 THEN 1 ELSE 0)

BSub(a, b) == BTrim(BSubFrom(a, b, 1, 0))

RECURSIVE BCmpFrom(_, _, _)
BCmpFrom(a, b, i) ==
    IF i = 0 THEN 0
    ELSE IF a[i] < b[i] THEN -1
    ELSE IF a[i] > b[i] THEN 1
    ELSE BCmpFrom(a, b, i - 1)

\* -1, 0, 1 as a < b, a = b, a > b
BCmp(a, b) ==
    IF Len(a) < Len(b) THEN -1
    ELSE IF Len(a) > Len(b) THEN 1
    ELSE BCmpFrom(a, b, Len(a))

RECURSIVE BMulSmallFrom(_, _, _, _)
BMulSmallFrom(a, k, i, carry) ==
    IF i > Len(a) THEN (IF carry = 0 THEN <<>> ELSE <<carry>>)
    ELSE LET t == a[i] * k + carry
         IN  <<t % Base>> \o BMulSmallFrom(a, k, i + 1, t \div Base)

\* a * k for 0 <= k < Base
BMulSmall(a, k) == IF k = 0 THEN <<>> ELSE BMulSmallFrom(a, k, 1, 0)

Zeros(n) == [i \in 1..n |-> 0]

\* a * Base^n
BShiftLimbs(a, n) == IF a = <<>> THEN <<>> ELSE Zeros(n) \o a

RECURSIVE BMulFrom(_, _, _)
BMulFrom(a, b, i) ==
    IF i > Len(a) THEN <<>>
    ELSE BAdd(BShiftLimbs(BMulSmall(b, a[i]), i - 1), BMulFrom(a, b, i + 1))

BMul(a, b) == BMulFrom(a, b, 1)

\* a * 2^n
BShl(a, n) == BShiftLimbs(BMulSmall(a, 2 ^ (n % LimbBits)), n \div LimbBits)

\* floor(a / 2^n)
BShr(a, n) ==
    LET drop == n \div LimbBits
        bits == n % LimbBits
        rest == IF drop >= Len(a) THEN <<>> ELSE SubSeq(a, drop + 1, Len(a))
    IN  BTrim([i \in 1..Len(rest) |->
                  (rest[i] \div (2 ^ bits))
                  + (Limb(rest, i + 1) % (2 ^ bits)) * (2 ^ (LimbBits - bits))])

BBitLen(a) ==
    IF a = <<>> THEN 0
    ELSE (Len(a) - 1) * LimbBits
         + (CHOOSE k \in 1..LimbBits : 2 ^ (k - 1) <= a[Len(a)] /\ a[Len(a)] < 2 ^ k)

BOdd(a) == a # <<>> /\ a[1] % 2 = 1

F(s, m, e) == <<s, m, e>>
FS(a) == a[1]
FM(a) == a[2]
FE(a) == a[3]

FZero == F(0, <<>>, 0)

\* The double of sign s, significand r and exponent e + d, r having
\* MantissaBits bits or one more (a round-up that carried out).
FRoundCarry(s, r, e, d) ==
    IF BBitLen(r) > MantissaBits
    THEN F(s, BShr(r, 1), e + d + 1)
    ELSE F(s, r, e + d)

\* half is -1, 0, 1 as the discarded bits are below, at, above one half.
FRoundHalf(s, q, e, d, sticky, half) ==
    FRoundCarry(s,
                IF half = 1 \/ (half = 0 /\ (sticky \/ BOdd(q)))
                THEN BAdd(q, <<1>>) ELSE q,
                e, d)

\* q is floor(n / 2^d), the significand before rounding.
FRoundShift(s, n, e, d, sticky, q) ==
    FRoundHalf(s, q, e, d, sticky, BCmp(BSub(n, BShl(q, d)), BShl(<<1>>, d - 1)))

\* len is the bit length of n # 0.
FRoundLen(s, n, e, sticky, len) ==
    IF len <= MantissaBits
    THEN F(s, BShl(n, MantissaBits - len), e - (MantissaBits - len))
    ELSE FRoundShift(s, n, e, len - MantissaBits, sticky, BShr(n, len - MantissaBits))

\* The double nearest to (-1)^s * (n + sticky) * 2^e, where sticky stands
\* for a discarded fraction in (0, 1); ties go to the even significand.
FRound(s, n, e, sticky) ==
    IF n = <<>> THEN FZero ELSE FRoundLen(s, n, e, sticky, BBitLen(n))

\* float(n) for an integer n
FInt(n) == FRound(IF n < 0 THEN 1 ELSE 0, BFromInt(IAbs(n)), 0, FALSE)

FNeg(a) == IF FM(a) = <<>> THEN a ELSE F(1 - FS(a), FM(a), FE(a))
FAbs(a) == F(0, FM(a), FE(a))

FMul(a, b) ==
    IF FM(a) = <<>> \/ FM(b) = <<>> THEN FZero
    ELSE FRound((FS(a) + FS(b)) % 2, BMul(FM(a), FM(b)), FE(a) + FE(b), FALSE)

\* c is -1, 0, 1 as na < nb, na = nb, na > nb.
ExactDifference(sa, sb, na, nb, e, c) ==
    IF c = 0 THEN <<0, <<>>, 0>>
    ELSE IF c = 1 THEN <<sa, BSub(na, nb), e>>
    ELSE <<sb, BSub(nb, na), e>>

\* (-1)^sa * na * 2^e + (-1)^sb * nb * 2^e
ExactSumAligned(sa, sb, na, nb, e) ==
    IF sa = sb THEN <<sa, BAdd(na, nb), e>>
    ELSE ExactDifference(sa, sb, na, nb, e, BCmp(na, nb))

ExactSumAt(a, b, e) ==
    ExactSumAligned(FS(a), FS(b), BShl(FM(a), FE(a) - e), BShl(FM(b), FE(b) - e), e)

\* The exact sum as <<sign, natural, exponent>>.
ExactSum(a, b) == ExactSumAt(a, b, IMin(FE(a), FE(b)))

FRoundSum(t) == FRound(t[1], t[2], t[3], FALSE)

FAdd(a, b) ==
    IF FM(a) = <<>> THEN b
    ELSE IF FM(b) = <<>> THEN a
    ELSE FRoundSum(ExactSum(a, b))

FSub(a, b) == FAdd(a, FNeg(b))

IsNegative(t) == t[2] # <<>> /\ t[1] = 1

\* a < b
FLt(a, b) ==
    IF FM(a) = <<>> THEN FM(b) # <<>> /\ FS(b) = 0
    ELSE IF FM(b) = <<>> THEN FS(a) = 1
    ELSE IsNegative(ExactSum(a, FNeg(b)))

\* LimbBits more quotient bits of r / d for r < 2 * d: <<bits, remainder>>.
RECURSIVE QuotientBits(_, _, _, _)
QuotientBits(r, d, n, q) ==
    IF n = 0 THEN <<q, r>>
    ELSE IF BCmp(r, d) >= 0
    THEN QuotientBits(BShl(BSub(r, d), 1), d, n - 1, 2 * q + 1)
    ELSE QuotientBits(BShl(r, 1), d, n - 1, 2 * q)

QuotientJoin(top, low) == <<low[1] \o <<top[1]>>, low[2]>>

\* floor(r * 2^(LimbBits * limbs - 1) / d) and the last remainder, for r < 2 * d
RECURSIVE Quotient(_, _, _)
RECURSIVE QuotientBelow(_, _, _)
QuotientBelow(top, d, limbs) == QuotientJoin(top, Quotient(top[2], d, limbs - 1))

Quotient(r, d, limbs) ==
    IF limbs = 0 THEN <<<<>>, r>>
    ELSE QuotientBelow(QuotientBits(r, d, LimbBits, 0), d, limbs)

QuotientLimbs == 4

FRoundQuotient(a, b, qr) ==
    FRound((FS(a) + FS(b)) % 2, BTrim(qr[1]),
           FE(a) - FE(b) - (LimbBits * QuotientLimbs - 1), qr[2] # <<>>)

\* a / b for b # 0
FDiv(a, b) ==
    IF FM(a) = <<>> THEN FZero
    ELSE FRoundQuotient(a, b, Quotient(FM(a), FM(b), QuotientLimbs))

(***************************************************************************)
(* The calibration in binary64.  The sheet has one row, so that every      *)
(* group sum is the sum of one value and is exact whatever the order and   *)
(* compensation of the summation; Cost and Weight are integers.            *)
(***************************************************************************)
MaxFloatCost == 6
MaxFloatWeight == 4

\* A decimal literal n / d of the source, e.g. 0.04, as the nearest double.
FLit(n, d) == FDiv(FInt(n), FInt(d))

FDONATED_COST == FLit(4, 100)

\* An integer kept as the rational <<n, 1>>, as a double.
FOfInt(v) == FInt(OrZero(v)[1])

\* (values[...] or 0) / total if total else 0
FRatioOf(v, total) == IF total # R(0) THEN FDiv(FOfInt(v), FOfInt(total)) ELSE FZero

FFoodRatios(values) ==
    LET total == CompTotal(values)
    IN  [produce_ratio |-> FRatioOf(values.produce, total),
         purchased_ratio |-> FRatioOf(values.purchased, total),
         donated_ratio |-> FRatioOf(values.donated, total)]

FEstimatedWeights(row, ratios) ==
    LET r == ratios[row.PROGRAM]
    IN  [PROGRAM |-> row.PROGRAM, Cost |-> row.Cost, Weight |-> row.Weight,
         Estimated_Produce_Weight |-> FMul(FOfInt(row.Weight), r.produce_ratio),
         Estimated_Purchased_Weight |-> FMul(FOfInt(row.Weight), r.purchased_ratio),
         Estimated_Donated_Weight |-> FMul(FOfInt(row.Weight), r.donated_ratio)]

\* The aggregate of a group of one row.
FAggRow(df, p) == GroupOf(df, p)[1]

RECURSIVE FGroupByProgram(_, _)
FGroupByProgram(df, i) ==
    IF i > Len(ProgramOrder) THEN <<>>
    ELSE (IF GroupOf(df, ProgramOrder[i]) = <<>> THEN <<>>
          ELSE <<FAggRow(df, ProgramOrder[i])>>) \o FGroupByProgram(df, i + 1)

\* np.linspace(0.5, 1.2, 71): arange(71) * ((stop - start) / 70) + start,
\* with the last point set to stop.
GridStart == FLit(1, 2)
GridStop == FLit(12, 10)
GridSpacing == FDiv(FSub(GridStop, GridStart), FInt(GridPoints - 1))

FCandidateY(k) ==
    IF k = GridPoints - 1 THEN GridStop ELSE FAdd(FMul(FInt(k), GridSpacing), GridStart)

\* x / total_weight if total_weight else 0, for a double x
FPerWeight(x, total_weight) ==
    IF total_weight # R(0) THEN FDiv(x, FOfInt(total_weight)) ELSE FZero

FCandidateX(blended_cost, rprod, rpurch, rdon, candidate_y) ==
    FDiv(FSub(FSub(blended_cost, FMul(rpurch, candidate_y)), FMul(rdon, FDONATED_COST)),
         rprod)

FReconstructed(rprod, rpurch, rdon, candidate_x, candidate_y) ==
    FAdd(FAdd(FMul(rprod, candidate_x), FMul(rpurch, candidate_y)),
         FMul(rdon, FDONATED_COST))

FGridError(blended_cost, rprod, rpurch, rdon, candidate_y) ==
    LET candidate_x == FCandidateX(blended_cost, rprod, rpurch, rdon, candidate_y)
    IN  FAbs(FSub(FReconstructed(rprod, rpurch, rdon, candidate_x, candidate_y),
                  blended_cost))

\* Variant: a candidate of equal error replaces the best one (<=).
FImprovesOrTies(error, best_error) == best_error = Inf \/ ~FLt(best_error, error)

\* if error < best_error
FImproves(error, best_error) == best_error = Inf \/ FLt(error, best_error)

FGridStep(blended_cost, rprod, rpurch, rdon, k, best) ==
    LET candidate_y == FCandidateY(k)
        error == FGridError(blended_cost, rprod, rpurch, rdon, candidate_y)
    IN  IF FImproves(error, best.best_error)
        THEN [best_error |-> error,
              x |-> FCandidateX(blended_cost, rprod, rpurch, rdon, candidate_y),
              y |-> candidate_y]
        ELSE best

RECURSIVE FGridLoop(_, _, _, _, _, _, _)
FGridLoop(blended_cost, rprod, rpurch, rdon, lo, hi, best) ==
    IF hi <= lo THEN best
    ELSE IF hi = lo + 1 THEN FGridStep(blended_cost, rprod, rpurch, rdon, lo, best)
    ELSE LET mid == (lo + hi) \div 2
             first == FGridLoop(blended_cost, rprod, rpurch, rdon, lo, mid, best)
         IN  \* as in GridLoop, the test only orders the evaluation
             IF first.best_error = Inf
             THEN FGridLoop(blended_cost, rprod, rpurch, rdon, mid, hi, first)
             ELSE FGridLoop(blended_cost, rprod, rpurch, rdon, mid, hi, first)

FGridSearch(blended_cost, rprod, rpurch, rdon) ==
    FGridLoop(blended_cost, rprod, rpurch, rdon, 0, GridPoints,
              [best_error |-> Inf, x |-> None, y |-> None])

FMaxOf(a, b) == IF FLt(a, b) THEN b ELSE a
FMinOf(a, b) == IF FLt(b, a) THEN b ELSE a

FSingleUnknown(blended_cost, r, rdon) ==
    FDiv(FSub(blended_cost, FMul(rdon, FDONATED_COST)), r)

FSolverBranch(prog, rprod, rpurch) ==
    IF prog # "BP" /\ FLt(FZero, rprod) /\ FLt(FZero, rpurch) THEN "grid"
    ELSE IF FLt(FZero, rpurch) /\ rprod = FZero THEN "purchased_only"
    ELSE IF FLt(FZero, rprod) /\ rpurch = FZero THEN "produce_only"
    ELSE "none"

FBlended(a) == FPerWeight(FOfInt(a.Cost), a.Weight)
FRProd(a) == FPerWeight(a.Estimated_Produce_Weight, a.Weight)
FRPurch(a) == FPerWeight(a.Estimated_Purchased_Weight, a.Weight)
FRDon(a) == FPerWeight(a.Estimated_Donated_Weight, a.Weight)

FBacksolve(row) ==
    LET prog == row.PROGRAM
        blended_cost == FBlended(row)
        rprod == FRProd(row)
        rpurch == FRPurch(row)
        rdon == FRDon(row)
        branch == FSolverBranch(prog, rprod, rpurch)
    IN  CASE branch = "grid" ->
               LET best == FGridSearch(blended_cost, rprod, rpurch, rdon)
               IN  Estimate(prog, best.x, best.y)
          [] branch = "purchased_only" ->
               Estimate(prog, None,
                        FMaxOf(FLit(1, 2),
                               FMinOf(FLit(12, 10), FSingleUnknown(blended_cost, rpurch, rdon))))
          [] branch = "produce_only" ->
               Estimate(prog, FSingleUnknown(blended_cost, rprod, rdon), None)
          [] OTHER -> Estimate(prog, None, None)

FloatPrograms == {"AGENCY", "BP", "PP"}

FloatSheets ==
    {<<Row(p, c, w)>> : p \in FloatPrograms, c \in 1..MaxFloatCost, w \in 0..MaxFloatWeight}

FReadExcel ==
    /\ pc = "read_excel"
    /\ \E sheet \in FloatSheets : excel' = sheet /\ quarter_df' = sheet
    /\ pc' = "ratios"
    /\ UNCHANGED <<err, lbs_per_hh_model, program_food_ratios, program_agg, results,
                   cost_estimates, form, out>>

FCalculateFoodRatios ==
    /\ pc = "ratios"
    /\ program_food_ratios' = [prog \in DOMAIN lbs_per_hh_model |->
                                  FFoodRatios(lbs_per_hh_model[prog])]
    /\ pc' = "filter"
    /\ UNCHANGED <<err, lbs_per_hh_model, excel, quarter_df, program_agg, results,
                   cost_estimates, form, out>>

FApplyRatios ==
    /\ pc = "apply"
    /\ quarter_df' = [i \in 1..Len(quarter_df) |->
                         FEstimatedWeights(quarter_df[i], program_food_ratios)]
    /\ pc' = "aggregate"
    /\ UNCHANGED <<err, lbs_per_hh_model, excel, program_food_ratios, program_agg,
                   results, cost_estimates, form, out>>

FAggregate ==
    /\ pc = "aggregate"
    /\ IF quarter_df = <<>>
       THEN /\ pc' = "error"
            /\ err' = "AggregateError"
            /\ UNCHANGED program_agg
       ELSE /\ program_agg' = FGroupByProgram(quarter_df, 1)
            /\ pc' = "backsolve"
            /\ UNCHANGED err
    /\ UNCHANGED <<lbs_per_hh_model, excel, program_food_ratios, quarter_df, results,
                   cost_estimates, form, out>>

FBacksolveCosts ==
    /\ pc = "backsolve"
    /\ results' = [i \in 1..Len(program_agg) |-> FBacksolve(program_agg[i])]
    /\ pc' = "guardrails"
    /\ UNCHANGED <<err, lbs_per_hh_model, excel, program_food_ratios, quarter_df,
                   program_agg, cost_estimates, form, out>>

FloatNext ==
    \/ FReadExcel
    \/ FCalculateFoodRatios
    \/ FilterRows
    \/ FApplyRatios
    \/ FAggregate
    \/ FBacksolveCosts

FloatSpec == Init /\ [][FloatNext]_vars

\* The aggregates the grid search runs on, from the doubles the code tests.
FTwoUnknowns(a) == a.PROGRAM # "BP" /\ FLt(FZero, FRProd(a)) /\ FLt(FZero, FRPurch(a))

\* The x the code computes for the candidate y of an aggregate.
FImpliedX(a, y) == FCandidateX(FBlended(a), FRProd(a), FRPurch(a), FRDon(a), y)

\* The error the code computes at grid point k of an aggregate.
FErrorAt(a, k) == FGridError(FBlended(a), FRProd(a), FRPurch(a), FRDon(a), FCandidateY(k))

\* C10, as stated: for every non-BP aggregate with both ratios positive the
\* search keeps the first candidate and returns y = 0.5 and
\* x = (blended - rPurch * 0.5 - rDon * 0.04) / rProd.
C10_AlwaysFirstCandidate ==
    pc = "guardrails" =>
        \A i \in 1..Len(program_agg) :
            FTwoUnknowns(program_agg[i]) =>
                /\ results[i].estimated_purchased_cost_per_lb = FLit(1, 2)
                /\ results[i].estimated_produce_cost_per_lb
                       = FImpliedX(program_agg[i], FLit(1, 2))

\* C10, amended: the error is 0 at every grid point in exact arithmetic
\* only; on the doubles of the code the computed error is 0 or a rounding
\* residue, and the search returns the lowest grid y whose computed error is
\* the least one, with the x computed for it: y = 0.5 whenever the computed
\* error at 0.5 is 0, a higher grid point otherwise.
C10_LowestLeastComputedError ==
    pc = "guardrails" =>
        \A i \in 1..Len(program_agg) :
            FTwoUnknowns(program_agg[i]) =>
                LET a == program_agg[i]
                    errors == [k \in 0..(GridPoints - 1) |-> FErrorAt(a, k)]
                IN  \E k \in DOMAIN errors :
                        /\ results[i].estimated_purchased_cost_per_lb = FCandidateY(k)
                        /\ results[i].estimated_produce_cost_per_lb
                               = FImpliedX(a, FCandidateY(k))
                        /\ \A j \in DOMAIN errors : ~FLt(errors[j], errors[k])
                        /\ \A j \in 0..(k - 1) : FLt(errors[k], errors[j])
                        /\ errors[0] = FZero => k = 0

\* The grid search has returned a candidate above 0.5: the computed error at
\* 0.5 is a rounding residue and a higher grid point has a smaller one.
C10_Witness ==
    /\ pc = "guardrails"
    /\ \E i \in 1..Len(program_agg) :
          /\ FTwoUnknowns(program_agg[i])
          /\ FErrorAt(program_agg[i], 0) # FZero
          /\ results[i].estimated_purchased_cost_per_lb # FLit(1, 2)
          /\ FLt(FLit(1, 2), results[i].estimated_purchased_cost_per_lb)

=============================================================================
